---------------------------- MODULE Spec2Model ----------------------------
(***************************************************************************)
(* GreynirTerms (src/main.py): generation of synthetic sentence pairs      *)
(* containing rare terms.                                                  *)
(*                                                                         *)
(* Strings are sequences of one-character strings, so that upper(),        *)
(* capitalize(), isupper(), split() and rsplit() are computed letter by    *)
(* letter.  A sentence is a sequence of tokens.  An Optional value is a    *)
(* sequence of length 0 (None) or 1.                                       *)
(***************************************************************************)
EXTENDS Integers, Sequences, FiniteSets, TLC

VARIABLES
    \* TermPair (one instance) and the calls made on it
    pair,       \* <<>> before construction, else <<[lemma, cat, prefix, en_singular, en_plural]>>
    cache,      \* TermPair._cache: variants -> <<is_form, en_form>>
    lookups,    \* number of db.lookup_forms calls made so far
    queried,    \* the lemmas db.lookup_forms was called with
    term,       \* the terms entry (lemma, cat, en) the TermPair was constructed from, or <<>>
    ret,        \* the last inflect call: [sig, form, looked, repeat], or <<>>
    first,      \* for every signature inflect was called with: what the first call returned
    calls,      \* number of inflect calls made so far
    err,        \* exception raised by the last operation, "" when none
    \* Template objects and the template file
    tpl,        \* <<>> or <<the Template built by Template.create>>
    slots,      \* where create put its tags: [is |-> index, en |-> index], or <<>>
    wire,       \* <<>> or <<the line Template.write wrote for tpl>>
    loaded,     \* <<>> or <<the Template returned by the last Template.load>>
    \* TemplateCollection
    templates,  \* TemplateCollection._templates: gender -> list of Template
    filled,     \* whether TemplateCollection.read has run
    infile,     \* <<>> or <<the template file TemplateCollection.read was given>>
    gen,        \* <<>> or <<the generate call made: [count, drawn, outputs, raised]>>
    \* the readers of the glossary and terms files
    glossary,   \* <<>> or <<TemplateCollector._glossary>>: lemma -> list of (singular, plural) patterns
    gfile,      \* <<>> or <<the glossary file read>>
    termsread,  \* <<>> or <<[file, d]>>: the terms file read and the dictionary read_terms returned
    diags,      \* the diagnostics the last reader printed to stderr
    \* TemplateCollector.run
    consumed,   \* non-blank corpus lines read so far
    parses,     \* calls of g.parse_single so far
    cnt,        \* the local cnt of run
    done,       \* whether run has returned
    lastline,   \* <<>> or <<the corpus line read last>>
    written     \* what the last line made run write to outfile: [index, line] per Template

termVars == <<pair, term, cache, lookups, queried, ret, first, calls, err>>

tplVars == <<tpl, slots, wire, loaded>>
collVars == <<templates, filled, infile, gen>>
readVars == <<glossary, gfile, termsread, diags>>
runVars == <<consumed, parses, cnt, done, lastline, written>>

----------------------------------------------------------------------------
(* Bounds *)

MaxCalls == 3       \* inflect calls made on one TermPair
MaxFileLines == 2   \* lines of a template file
MaxCount == 3       \* the count passed to generate
MaxReaderLines == 2 \* lines of a glossary or terms file
MaxCorpusLines == 2 \* non-blank lines of the corpus of a run
MaxBudgetLines == 1002  \* non-blank lines of a corpus long enough to use up the budget

----------------------------------------------------------------------------
(* Python str methods, letter by letter *)

LOWERCASE == <<"a","b","c","d","e","f","g","h","i","j","k","l","m",
               "n","o","p","q","r","s","t","u","v","w","x","y","z">>
UPPERCASE == <<"A","B","C","D","E","F","G","H","I","J","K","L","M",
               "N","O","P","Q","R","S","T","U","V","W","X","Y","Z">>

IsLowerChar(c) == \E i \in DOMAIN LOWERCASE : LOWERCASE[i] = c
IsUpperChar(c) == \E i \in DOMAIN UPPERCASE : UPPERCASE[i] = c

UpperChar(c) ==
    IF IsLowerChar(c) THEN UPPERCASE[CHOOSE i \in DOMAIN LOWERCASE : LOWERCASE[i] = c] ELSE c
LowerChar(c) ==
    IF IsUpperChar(c) THEN LOWERCASE[CHOOSE i \in DOMAIN UPPERCASE : UPPERCASE[i] = c] ELSE c

\* str.upper(), str.lower()
upper(s) == [i \in DOMAIN s |-> UpperChar(s[i])]
lower(s) == [i \in DOMAIN s |-> LowerChar(s[i])]

\* str.capitalize(): first character upper-cased, the rest lower-cased
capitalize(s) == [i \in DOMAIN s |-> IF i = 1 THEN UpperChar(s[i]) ELSE LowerChar(s[i])]

\* str.isupper(): no lower-case letter and at least one upper-case letter
isupper(s) ==
    /\ \A i \in DOMAIN s : ~IsLowerChar(s[i])
    /\ \E i \in DOMAIN s : IsUpperChar(s[i])

\* c in s, for a one-character c
HasChar(s, c) == \E i \in DOMAIN s : s[i] = c

\* position of the last c in s (0 when there is none)
LastIndex(s, c) ==
    IF HasChar(s, c) THEN CHOOSE i \in DOMAIN s : s[i] = c /\ \A j \in DOMAIN s : s[j] = c => j <= i
    ELSE 0

\* a split at the first c instead of the last
rsplit_first(s, c) ==
    LET k == CHOOSE i \in DOMAIN s : s[i] = c /\ \A j \in DOMAIN s : s[j] = c => i <= j
    IN  <<SubSeq(s, 1, k - 1), SubSeq(s, k + 1, Len(s))>>

\* s.rsplit(c, maxsplit=1), for s holding c
rsplit(s, c) == <<SubSeq(s, 1, LastIndex(s, c) - 1), SubSeq(s, LastIndex(s, c) + 1, Len(s))>>

ToSet(s) == {s[i] : i \in DOMAIN s}

\* position of the first c in s, for s holding c
FirstIndex(s, c) == CHOOSE i \in DOMAIN s : s[i] = c /\ \A j \in 1..(i - 1) : s[j] # c

\* s.split(c)
RECURSIVE split(_, _)
split(s, c) ==
    IF ~HasChar(s, c) THEN <<s>>
    ELSE <<SubSeq(s, 1, FirstIndex(s, c) - 1)>>
            \o split(SubSeq(s, FirstIndex(s, c) + 1, Len(s)), c)

\* s.strip()
RECURSIVE strip(_)
strip(s) ==
    IF s = << >> THEN s
    ELSE IF s[1] = " " THEN strip(Tail(s))
    ELSE IF s[Len(s)] = " " THEN strip(SubSeq(s, 1, Len(s) - 1))
    ELSE s

\* set(s).pop(), for the sets of one element it is used on
pop(S) == CHOOSE x \in S : TRUE

----------------------------------------------------------------------------
(* The lexicon (reynir.bindb.BIN_Db), an external collaborator: a small    *)
(* fixed dictionary with a toy morphology.                                 *)

CASE_VARIANTS == {"nf", "þf", "þgf", "ef"}

Sol == <<"s","o","l">>
Dvergur == <<"d","v","e","r","g">>
Folk == <<"f","o","l","k">>
Net == <<"n","e","t">>
Vef == <<"v","e","f">>
Mal == <<"m","a","l">>

\* db.lookup_lemma(lemma): the entries (ordfl, stofn) of a lemma
lookup_lemma(lemma) ==
    CASE lemma = Dvergur -> << [ordfl |-> "kk", stofn |-> Dvergur] >>
      \* a compound: the canonical form marks the joint with a hyphen
      [] lemma = <<"r","a","u">> \o Dvergur ->
            << [ordfl |-> "kk", stofn |-> <<"r","a","u","-">> \o Dvergur] >>
      \* a compound of three parts
      [] lemma = Vef \o Net \o Folk ->
            << [ordfl |-> "hk", stofn |-> Vef \o <<"-">> \o Net \o <<"-">> \o Folk] >>
      [] lemma = Sol -> << [ordfl |-> "kvk", stofn |-> Sol] >>
      \* a noun that only has singular forms
      [] lemma = Folk -> << [ordfl |-> "hk", stofn |-> Folk] >>
      \* the caller's lemma is itself hyphenated: not treated as a compound
      [] lemma = <<"e","-">> \o Net ->
            << [ordfl |-> "hk", stofn |-> <<"e","-">> \o Net] >>
      \* two entries of the same category, and one of another
      [] lemma = Mal -> << [ordfl |-> "hk", stofn |-> Mal],
                           [ordfl |-> "kvk", stofn |-> Mal],
                           [ordfl |-> "hk", stofn |-> Mal] >>
      [] OTHER -> << >>

CaseEnding(case) ==
    CASE case = "nf" -> <<"u","r">>
      [] case = "þf" -> << >>
      [] case = "þgf" -> <<"i">>
      [] OTHER -> <<"s">>

\* the beyging mark of a case
CaseMark(case) ==
    CASE case = "nf" -> "NF"
      [] case = "þf" -> "ÞF"
      [] case = "þgf" -> "ÞGF"
      [] OTHER -> "EF"

\* The forms of one number: indefinite, definite, and for the dative singular a
\* secondary variant (marked "2") listed after the primary forms
NumberForms(lemma, case, numberMark) ==
    LET stem == lemma \o CaseEnding(case) \o (IF numberMark = "FT" THEN <<"a">> ELSE << >>)
    IN  << [ordmynd |-> stem, beyging |-> <<CaseMark(case), numberMark>>],
           [ordmynd |-> stem \o <<"n">>, beyging |-> <<CaseMark(case), numberMark, "gr">>] >>
        \o (IF case = "þgf" /\ numberMark = "ET"
            THEN << [ordmynd |-> lemma, beyging |-> <<CaseMark(case), numberMark, "2">>],
                    [ordmynd |-> lemma \o <<"n">>,
                     beyging |-> <<CaseMark(case), numberMark, "gr", "2">>] >>
            ELSE << >>)

\* db.lookup_forms(lemma, cat, case): the inflected forms (ordmynd, beyging)
lookup_forms(lemma, cat, case) ==
    IF lemma = Dvergur /\ cat = "kk"
    THEN NumberForms(lemma, case, "ET") \o NumberForms(lemma, case, "FT")
    ELSE IF lemma \in {Folk, <<"e","-">> \o Net} /\ cat = "hk"
    THEN NumberForms(lemma, case, "ET")
    ELSE << >>

\* mark in m.beyging
InBeyging(mark, beyging) == \E i \in DOMAIN beyging : beyging[i] = mark

----------------------------------------------------------------------------
(* class TermPair *)

None == << >>
Some(x) == << x >>

\* dict.get(key)
Get(d, key) == IF key \in DOMAIN d THEN Some(d[key]) ELSE None

\* d[key] = value
Put(d, key, value) == [k \in DOMAIN d \cup {key} |-> IF k = key THEN value ELSE d[k]]

EmptyDict == [k \in {} |-> None]

\* TermPair.__init__: the new instance, or None when ValueError is raised
NewTermPair(lemma, cat, en) ==
    LET m == SelectSeq(lookup_lemma(lemma), LAMBDA mm : mm.ordfl = cat)
    IN  IF Len(m) # 1 THEN None
        ELSE IF HasChar(m[1].stofn, "-") /\ ~HasChar(lemma, "-")
        THEN Some([lemma |-> rsplit(m[1].stofn, "-")[2], cat |-> cat,
                   prefix |-> rsplit(m[1].stofn, "-")[1],
                   en_singular |-> en[1], en_plural |-> en[2]])
        ELSE Some([lemma |-> lemma, cat |-> cat, prefix |-> << >>,
                   en_singular |-> en[1], en_plural |-> en[2]])

\* the variant set of one lexicon form (lines 171-174)
FormVariants(case, m) ==
    {case, IF InBeyging("FT", m.beyging) THEN "ft" ELSE "et"}
        \cup (IF InBeyging("gr", m.beyging) THEN {"gr"} ELSE {})

\* no lexicon form is skipped
SkipForm_never(m) == FALSE

\* whether a lexicon form is skipped (line 168)
SkipForm(m) == InBeyging("2", m.beyging) \/ InBeyging("3", m.beyging)

\* the Icelandic form stored for a lexicon form (line 176)
IsForm(p, m) == p.prefix \o m.ordmynd

\* the English form stored for a lexicon form (lines 178-181)
EnForm(p, m) == IF InBeyging("FT", m.beyging) THEN p.en_plural ELSE p.en_singular

\* the loop of lines 167-183 over the forms ms, from position i on
RECURSIVE CacheForms(_, _, _, _, _)
CacheForms(p, c, case, ms, i) ==
    IF i > Len(ms) THEN c
    ELSE IF SkipForm(ms[i]) THEN CacheForms(p, c, case, ms, i + 1)
    ELSE CacheForms(p, Put(c, FormVariants(case, ms[i]), <<IsForm(p, ms[i]), EnForm(p, ms[i])>>),
                    case, ms, i + 1)

\* no cache check: every call queries the lexicon
Misses_always(c, variants) == TRUE

\* whether inflect queries the lexicon (line 164)
Misses(c, variants) == Get(c, variants) = None

\* TermPair.inflect(variants) on the cache c: the cache afterwards, the form
\* returned, whether the lexicon was queried, and whether line 166 raised
\* KeyError (variants holding no case)
inflect(p, c, variants) ==
    IF ~Misses(c, variants)
    THEN [cache |-> c, form |-> Get(c, variants), looked |-> FALSE, raised |-> FALSE]
    ELSE IF variants \cap CASE_VARIANTS = {}
    THEN [cache |-> c, form |-> None, looked |-> FALSE, raised |-> TRUE]
    ELSE LET case == pop(variants \cap CASE_VARIANTS)
             c2 == CacheForms(p, c, case, lookup_forms(p.lemma, p.cat, case), 1)
         IN  [cache |-> c2, form |-> Get(c2, variants), looked |-> TRUE, raised |-> FALSE]

----------------------------------------------------------------------------
(* class Template.  A text is a sequence of tokens; a token is a sequence   *)
(* of characters, where the parts of a tag ("kk", "caps", ...) count as     *)
(* one character each.                                                      *)

PLACEHOLDER == <<"[*]">>

INTERESTING_VARIANTS == {"nf", "þf", "þgf", "ef", "et", "ft", "gr"}
GENDER_VARIANTS == {"kk", "kvk", "hk"}
NUMBER_VARIANTS == {"et", "ft"}

\* "{0:" + placeholder + "}"
Tag(placeholder) == <<"{", "0", ":">> \o placeholder \o <<"}">>

\* the capitalization suffix of a tag (lines 285-288, 295-298)
CapsSuffix(all_caps, first_cap) ==
    IF all_caps THEN <<"_", "caps">> ELSE IF first_cap THEN <<"_", "cap">> ELSE << >>

\* the Icelandic-side placeholder (lines 282-288)
IsPlaceholder(gender, case, number, vset, all_caps, first_cap) ==
    <<gender, "_", case, "_", number>>
        \o (IF "gr" \in vset THEN <<"_", "gr">> ELSE << >>)
        \o CapsSuffix(all_caps, first_cap)

\* the English-side placeholder (lines 294-298)
EnPlaceholder(number, all_caps, first_cap) ==
    <<IF number = "ft" THEN "pl" ELSE "sg">> \o CapsSuffix(all_caps, first_cap)

\* whether the pattern \bword\b matches a token, ignoring case
Matches(regex, token) == lower(token) = lower(regex)

\* re.findall(regex, sent, re.IGNORECASE)
findall(regex, sent) == SelectSeq(sent, LAMBDA token : Matches(regex, token))

\* index of the first token the pattern matches (0 when there is none)
FirstMatch(regex, sent) ==
    IF \E i \in DOMAIN sent : Matches(regex, sent[i])
    THEN CHOOSE i \in DOMAIN sent :
            Matches(regex, sent[i]) /\ \A j \in 1..(i - 1) : ~Matches(regex, sent[j])
    ELSE 0

\* re.sub(regex, repl, sent, count=1, flags=re.IGNORECASE)
sub_first(regex, repl, sent) ==
    [i \in DOMAIN sent |-> IF i = FirstMatch(regex, sent) THEN repl ELSE sent[i]]

\* Template.create(sent, terminal, en_sent, en_word, en_word_regex), where
\* tokens is sent.tokens; None when the assertion of line 306 fails
create(tokens, terminal, en_sent, en_word, en_word_regex) ==
    LET vset == terminal.variants
        gender == pop(vset \cap GENDER_VARIANTS)
        case == pop(vset \cap CASE_VARIANTS)
        number == pop(vset \cap NUMBER_VARIANTS)
        txt == tokens[terminal.index]
        is_all_caps == isupper(txt)
        is_first_cap == IsUpperChar(txt[1])
        en_all_caps == isupper(en_word)
        en_first_cap == IsUpperChar(en_word[1])
        is_placeholder == IsPlaceholder(gender, case, number, vset, is_all_caps, is_first_cap)
        en_placeholder == EnPlaceholder(number, en_all_caps, en_first_cap)
        en_template == sub_first(en_word_regex, Tag(en_placeholder), en_sent)
    IN  IF en_template = en_sent THEN None
        ELSE Some([variants |-> vset \cap INTERESTING_VARIANTS,
                   gender |-> gender, case |-> case, number |-> number,
                   is_all_caps |-> is_all_caps, is_first_cap |-> is_first_cap,
                   en_all_caps |-> en_all_caps, en_first_cap |-> en_first_cap,
                   is_template |-> [tokens EXCEPT ![terminal.index] = Tag(is_placeholder)],
                   en_template |-> en_template])

\* Template.write: the line written, "en_template \t is_template"
write(t) == <<t.en_template, t.is_template>>

\* whether a token is a match of {[^\}]+}
IsBraceGroup(token) ==
    /\ Len(token) >= 3
    /\ token[1] = "{"
    /\ token[Len(token)] = "}"
    /\ \A i \in 2..(Len(token) - 1) : token[i] # "}"

\* whether a token is a match of {([0-9]+):([^\}]+)}
IsTag(token) ==
    /\ IsBraceGroup(token)
    /\ Len(token) >= 5
    /\ token[2] \in {"0", "1", "2", "3", "4", "5", "6", "7", "8", "9"}
    /\ token[3] = ":"

\* re.search(r"{([0-9]+):([^\}]+)}", text): the first tag, or None
search_tag(text) ==
    IF \E i \in DOMAIN text : IsTag(text[i])
    THEN Some(text[CHOOSE i \in DOMAIN text :
                    IsTag(text[i]) /\ \A j \in 1..(i - 1) : ~IsTag(text[j])])
    ELSE None

\* m.group(2).split("_") as a set
TagParts(token) == { token[i] : i \in 4..(Len(token) - 1) } \ {"_"}

\* re.sub(r"{[^\}]+}", PLACEHOLDER, text)
sub_braces(text) == [i \in DOMAIN text |-> IF IsBraceGroup(text[i]) THEN PLACEHOLDER ELSE text[i]]

\* the class-wide defaults of lines 236-245
DefaultTemplate ==
    [variants |-> {}, gender |-> "", case |-> "", number |-> "",
     is_all_caps |-> FALSE, is_first_cap |-> FALSE,
     en_all_caps |-> FALSE, en_first_cap |-> FALSE,
     is_template |-> << >>, en_template |-> << >>]

\* whether one of the assertions of Template.load fails
LoadAsserts(is_template, en_template) ==
    LET m == search_tag(is_template)
        e == search_tag(en_template)
    IN  \/ /\ m # None
           /\ \/ m[1][2] # "0"
              \/ Cardinality(TagParts(m[1]) \cap GENDER_VARIANTS) # 1
              \/ Cardinality(TagParts(m[1]) \cap CASE_VARIANTS) # 1
              \/ Cardinality(TagParts(m[1]) \cap NUMBER_VARIANTS) # 1
        \/ e # None /\ e[1][2] # "0"

\* the number of the signature is taken from the English tag
load_en_number(is_template, en_template) ==
    LET m == search_tag(is_template)
        e == search_tag(en_template)
        vset == TagParts(m[1])
        t1 == IF m # None
              THEN [DefaultTemplate EXCEPT
                        !.variants = vset \cap INTERESTING_VARIANTS,
                        !.gender = pop(vset \cap GENDER_VARIANTS),
                        !.case = pop(vset \cap CASE_VARIANTS),
                        !.number = pop(vset \cap NUMBER_VARIANTS),
                        !.is_all_caps = "caps" \in vset,
                        !.is_first_cap = "cap" \in vset,
                        !.is_template = sub_braces(is_template)]
              ELSE [DefaultTemplate EXCEPT !.is_template = is_template]
        t2 == IF e # None
              THEN [t1 EXCEPT
                        !.variants = (@ \ NUMBER_VARIANTS)
                            \cup (IF "pl" \in TagParts(e[1]) THEN {"ft"} ELSE {"et"}),
                        !.en_all_caps = "caps" \in TagParts(e[1]),
                        !.en_first_cap = "cap" \in TagParts(e[1]),
                        !.en_template = sub_braces(en_template)]
              ELSE [t1 EXCEPT !.en_template = en_template]
    IN  IF LoadAsserts(is_template, en_template) THEN None ELSE Some(t2)

\* Template.load(is_template, en_template): the Template, or None when an
\* assertion fails
load(is_template, en_template) ==
    LET m == search_tag(is_template)
        e == search_tag(en_template)
        vset == TagParts(m[1])
        t1 == IF m # None
              THEN [DefaultTemplate EXCEPT
                        !.variants = vset \cap INTERESTING_VARIANTS,
                        !.gender = pop(vset \cap GENDER_VARIANTS),
                        !.case = pop(vset \cap CASE_VARIANTS),
                        !.number = pop(vset \cap NUMBER_VARIANTS),
                        !.is_all_caps = "caps" \in vset,
                        !.is_first_cap = "cap" \in vset,
                        !.is_template = sub_braces(is_template)]
              ELSE [DefaultTemplate EXCEPT !.is_template = is_template]
        t2 == IF e # None
              THEN [t1 EXCEPT
                        !.en_all_caps = "caps" \in TagParts(e[1]),
                        !.en_first_cap = "cap" \in TagParts(e[1]),
                        !.en_template = sub_braces(en_template)]
              ELSE [t1 EXCEPT !.en_template = en_template]
    IN  IF LoadAsserts(is_template, en_template) THEN None ELSE Some(t2)

----------------------------------------------------------------------------
(* class TemplateCollection *)

\* defaultdict(list): every key maps to a list
EmptyCollection == [g \in GENDER_VARIANTS \cup {""} |-> << >>]

\* TemplateCollection.append
append(coll, t) == [coll EXCEPT ![t.gender] = Append(@, t)]

\* TemplateCollection.read: the loop of lines 203-209 over the lines of the
\* file from position i on; a line is << >> (blank) or <<en_template, is_template>>
RECURSIVE read(_, _, _)
read(coll, file, i) ==
    IF i > Len(file) THEN [templates |-> coll, err |-> ""]
    ELSE IF file[i] = << >> THEN read(coll, file, i + 1)
    ELSE LET t == load(file[i][2], file[i][1])
         IN  IF t = None THEN [templates |-> coll, err |-> "AssertionError"]
             ELSE read(append(coll, t[1]), file, i + 1)

\* str.replace(PLACEHOLDER, word) on a text
replace(text, word) == [i \in DOMAIN text |-> IF text[i] = PLACEHOLDER THEN word ELSE text[i]]

\* the capitalization of lines 371-378 for one side
Capitalized(all_caps, first_cap, form) ==
    IF all_caps THEN upper(form)
    ELSE IF first_cap THEN capitalize(form)
    ELSE form

\* Template.substitute(pair) on the cache c: the cache afterwards, the pair of
\* sentences (or None), the forms inflect returned, and whether inflect raised
substitute(t, p, c) ==
    LET r == inflect(p, c, t.variants)
    IN  IF r.form = None
        THEN [cache |-> r.cache, sub |-> None, terms |-> None,
              looked |-> r.looked, raised |-> r.raised]
        ELSE [cache |-> r.cache,
              sub |-> Some(<<replace(t.is_template,
                                     Capitalized(t.is_all_caps, t.is_first_cap, r.form[1][1])),
                             replace(t.en_template,
                                     Capitalized(t.en_all_caps, t.en_first_cap, r.form[1][2]))>>),
              terms |-> r.form, looked |-> r.looked, raised |-> FALSE]

\* draws with replacement
sample_with_replacement(n, k) == [1..k -> 1..n]

\* random.sample(population of size n, k): the possible draws, as sequences of
\* positions; none when k > n (ValueError)
sample(n, k) == { d \in [1..k -> 1..n] : \A i, j \in 1..k : i # j => d[i] # d[j] }

\* the loop ends at the first template whose substitute returns None
RECURSIVE yield_until_none(_, _, _, _, _, _, _)
yield_until_none(bucket, p, c, drawn, i, outputs, looks) ==
    IF i > Len(drawn) THEN [cache |-> c, outputs |-> outputs, looks |-> looks, raised |-> ""]
    ELSE LET r == substitute(bucket[drawn[i]], p, c)
             n == looks + (IF r.looked THEN 1 ELSE 0)
         IN  IF r.raised
             THEN [cache |-> r.cache, outputs |-> outputs, looks |-> n, raised |-> "KeyError"]
             ELSE IF r.sub = None
             THEN [cache |-> r.cache, outputs |-> outputs, looks |-> n, raised |-> ""]
             ELSE yield_until_none(bucket, p, r.cache, drawn, i + 1,
                        Append(outputs, [pos |-> drawn[i], sub |-> r.sub[1], terms |-> r.terms[1]]),
                        n)

\* the loop of lines 217-220 over the drawn positions from i on: the cache
\* afterwards, the pairs yielded with the position each came from, the
\* number of lexicon queries made, and the exception that ended it
RECURSIVE yield(_, _, _, _, _, _, _)
yield(bucket, p, c, drawn, i, outputs, looks) ==
    IF i > Len(drawn) THEN [cache |-> c, outputs |-> outputs, looks |-> looks, raised |-> ""]
    ELSE LET r == substitute(bucket[drawn[i]], p, c)
             n == looks + (IF r.looked THEN 1 ELSE 0)
         IN  IF r.raised
             THEN [cache |-> r.cache, outputs |-> outputs, looks |-> n, raised |-> "KeyError"]
             ELSE IF r.sub = None THEN yield(bucket, p, r.cache, drawn, i + 1, outputs, n)
             ELSE yield(bucket, p, r.cache, drawn, i + 1,
                        Append(outputs, [pos |-> drawn[i], sub |-> r.sub[1], terms |-> r.terms[1]]),
                        n)

----------------------------------------------------------------------------
(* The readers of the glossary and terms files.  A file is a sequence of    *)
(* lines, a line a sequence of characters.                                  *)

\* english_plural (inflect.engine().plural), for regular nouns
english_plural(w) == w \o <<"s">>

\* whether no lexicon entry of the lemma has the category (line 424)
NotInLexicon(lemma, cat) ==
    \A k \in DOMAIN lookup_lemma(lemma) : <<lookup_lemma(lemma)[k].ordfl>> # cat

\* the value stored for a glossary line (lines 430-437): r"\b" + w + r"\b"
\* is written w
GlossaryEntry(g) == [k \in 1..(Len(g) - 1) |-> <<g[k + 1], english_plural(g[k + 1])>>]

\* TemplateCollector._read_glossary: the loop of lines 410-437 over the lines
\* of the file from position i on
RECURSIVE read_glossary(_, _, _, _)
read_glossary(d, msgs, file, i) ==
    IF i > Len(file) THEN [d |-> d, diags |-> msgs, err |-> ""]
    ELSE LET ln == strip(file[i])
             g == [k \in DOMAIN split(ln, ",") |-> strip(split(ln, ",")[k])]
             first_field == split(g[1], "/")
         IN  IF ln = << >> THEN read_glossary(d, msgs, file, i + 1)
             ELSE IF ln[1] = "#" THEN read_glossary(d, msgs, file, i + 1)
             ELSE IF Len(g) < 2
             THEN read_glossary(d, Append(msgs, "Malformed line in glossary file"), file, i + 1)
             ELSE IF Len(first_field) # 2 THEN [d |-> d, diags |-> msgs, err |-> "ValueError"]
             ELSE IF NotInLexicon(first_field[1], first_field[2])
             THEN read_glossary(d, Append(msgs, "Could not find glossary entry"), file, i + 1)
             ELSE read_glossary(Put(d, first_field[1], GlossaryEntry(g)), msgs, file, i + 1)

\* the value stored for a terms line (lines 529-534)
TermsEntry(g) == IF Len(g) = 2 THEN <<g[2], english_plural(g[2])>> ELSE <<g[2], g[3]>>

\* read_terms: the loop of lines 513-536 over the lines of the file from
\* position i on
RECURSIVE read_terms(_, _, _, _)
read_terms(d, msgs, file, i) ==
    IF i > Len(file) THEN [d |-> d, diags |-> msgs, err |-> ""]
    ELSE LET ln == strip(file[i])
             g == [k \in DOMAIN split(ln, ",") |-> strip(split(ln, ",")[k])]
             first_field == split(g[1], "/")
         IN  IF ln = << >> THEN read_terms(d, msgs, file, i + 1)
             ELSE IF ln[1] = "#" THEN read_terms(d, msgs, file, i + 1)
             ELSE IF Len(g) < 2
             THEN read_terms(d, Append(msgs, "Malformed line in terms file"), file, i + 1)
             ELSE IF Len(first_field) # 2 THEN [d |-> d, diags |-> msgs, err |-> "ValueError"]
             ELSE IF first_field[2] \notin {<<x>> : x \in GENDER_VARIANTS}
             THEN [d |-> d, diags |-> msgs, err |-> "AssertionError"]
             ELSE read_terms(Put(d, first_field[1] \o <<"/">> \o first_field[2], TermsEntry(g)),
                             msgs, file, i + 1)

----------------------------------------------------------------------------
(* class TemplateCollector *)

MAX_LINES == 1000

\* the first candidate that matches once decides, the later ones are not tried
scan_first_match(en_lemmas, i, is_plural, en_sent, count, target_word, target_word_regex) ==
    LET regex(k) == IF is_plural THEN en_lemmas[k][2] ELSE en_lemmas[k][1]
        hits == {k \in i..Len(en_lemmas) : Len(findall(regex(k), en_sent)) = 1}
    IN  IF hits = {} THEN [completed |-> TRUE, count |-> 0, target_word |-> << >>,
                           target_word_regex |-> << >>]
        ELSE LET k == CHOOSE x \in hits : \A y \in hits : x <= y
             IN  [completed |-> TRUE, count |-> 1,
                  target_word |-> findall(regex(k), en_sent)[1],
                  target_word_regex |-> regex(k)]

\* the loop of lines 476-494 over the candidates from position i on:
\* whether it ran to its end (no break), and count, target_word and
\* target_word_regex when it stopped
RECURSIVE scan(_, _, _, _, _, _, _)
scan(en_lemmas, i, is_plural, en_sent, count, target_word, target_word_regex) ==
    IF i > Len(en_lemmas)
    THEN [completed |-> TRUE, count |-> count, target_word |-> target_word,
          target_word_regex |-> target_word_regex]
    ELSE LET en_word_regex == IF is_plural THEN en_lemmas[i][2] ELSE en_lemmas[i][1]
             matches == findall(en_word_regex, en_sent)
             stopped == [completed |-> FALSE, count |-> count, target_word |-> target_word,
                         target_word_regex |-> target_word_regex]
         IN  IF matches = << >>
             THEN scan(en_lemmas, i + 1, is_plural, en_sent, count, target_word, target_word_regex)
             ELSE IF Len(matches) > 1 THEN stopped
             ELSE IF count + 1 > 1 THEN [stopped EXCEPT !.count = count + 1]
             ELSE scan(en_lemmas, i + 1, is_plural, en_sent, count + 1, matches[1], en_word_regex)

\* the body of the loop of line 455 for one terminal: the Template written for
\* it, or None
noun_template(gloss, sent, terminal, en_sent) ==
    IF terminal.category # "no" THEN None
    ELSE IF HasChar(terminal.text, " ") THEN None
    ELSE IF Get(gloss, terminal.lemma) = None THEN None
    ELSE LET r == scan(gloss[terminal.lemma], 1, "ft" \in terminal.variants, en_sent,
                       0, << >>, << >>)
         IN  IF r.completed /\ r.count = 1
             THEN create(sent.tokens, terminal, en_sent, r.target_word, r.target_word_regex)
             ELSE None

\* the loop over the terminals stops at the first Template written
collect_first(gloss, sent, en_sent, i, out) ==
    LET hits == {j \in i..Len(sent.terminals[1]) :
                    noun_template(gloss, sent, sent.terminals[1][j], en_sent) # None}
    IN  IF hits = {} THEN out
        ELSE LET j == CHOOSE x \in hits : \A y \in hits : x <= y
             IN  Append(out, [index |-> sent.terminals[1][j].index,
                              line |-> write(noun_template(gloss, sent, sent.terminals[1][j],
                                                           en_sent)[1])])

\* the loop of lines 455-502 over the terminals from position i on: the lines
\* written to outfile, each with the index of the terminal it was made for
RECURSIVE collect(_, _, _, _, _)
collect(gloss, sent, en_sent, i, out) ==
    IF i > Len(sent.terminals[1]) THEN out
    ELSE LET t == noun_template(gloss, sent, sent.terminals[1][i], en_sent)
         IN  collect(gloss, sent, en_sent, i + 1,
                     IF t = None THEN out
                     ELSE Append(out, [index |-> sent.terminals[1][i].index,
                                       line |-> write(t[1])]))

\* whether the sentence cannot be used (line 451)
Unparsed(sent) == sent = None \/ sent[1].terminals = None

\* whether the budget is used up (line 505)
BudgetReached(n) == n >= MAX_LINES

----------------------------------------------------------------------------
(* Inputs of the TermPair operations *)

Dna == <<"D","N","A">>
Star == <<"s","t","a","r">>

\* lines of a terms file, as generate_pairs passes them to TermPair
Terms ==
    { [lemma |-> Dvergur, cat |-> "kk", en |-> <<Star, Star \o <<"s">> >>],
      [lemma |-> <<"r","a","u">> \o Dvergur, cat |-> "kk", en |-> <<Dna, Dna \o <<"s">> >>],
      [lemma |-> Vef \o Net \o Folk, cat |-> "hk", en |-> <<Star, Star \o <<"s">> >>],
      [lemma |-> Folk, cat |-> "hk", en |-> <<Star, Star \o <<"s">> >>],
      [lemma |-> <<"e","-">> \o Net, cat |-> "hk", en |-> <<Dna, Dna \o <<"s">> >>],
      [lemma |-> Mal, cat |-> "hk", en |-> <<Star, Star \o <<"s">> >>],
      [lemma |-> Mal, cat |-> "kvk", en |-> <<Star, Star \o <<"s">> >>] }

\* the cases of the signatures tried
InputCases == {"nf", "þgf"}

\* Template._variants of a template with a tag: one case, one number, maybe "gr"
Signatures ==
    { {c, n} \cup g : c \in InputCases, n \in {"et", "ft"}, g \in {{}, {"gr"}} }

----------------------------------------------------------------------------
(* Operations on the TermPair *)

\* no TermPair, no Template, an empty TemplateCollection
Init ==
    /\ pair = None
    /\ term = None
    /\ cache = EmptyDict
    /\ lookups = 0
    /\ queried = {}
    /\ ret = None
    /\ first = EmptyDict
    /\ calls = 0
    /\ err = ""
    /\ tpl = None
    /\ slots = None
    /\ wire = None
    /\ loaded = None
    /\ templates = EmptyCollection
    /\ filled = FALSE
    /\ infile = None
    /\ gen = None
    /\ glossary = None
    /\ gfile = None
    /\ termsread = None
    /\ diags = << >>
    /\ consumed = 0
    /\ parses = 0
    /\ cnt = 0
    /\ done = FALSE
    /\ lastline = None
    /\ written = << >>

\* tp = TermPair(lemma, cat, v)  (generate_pairs, line 560)
Construct ==
    /\ pair = None /\ tpl = None /\ loaded = None
    /\ err = ""
    /\ \E t \in Terms :
        /\ pair' = NewTermPair(t.lemma, t.cat, t.en)
        /\ term' = Some(t)
        /\ err' = IF NewTermPair(t.lemma, t.cat, t.en) = None THEN "ValueError" ELSE ""
    /\ UNCHANGED <<cache, lookups, queried, ret, first, calls, tplVars, collVars, readVars, runVars>>

\* tp.inflect(sig)
Inflect ==
    /\ pair # None /\ gen = None
    /\ calls < MaxCalls
    /\ calls' = calls + 1
    /\ \E sig \in Signatures :
        LET r == inflect(pair[1], cache, sig)
        IN  /\ cache' = r.cache
            /\ lookups' = IF r.looked THEN lookups + 1 ELSE lookups
            /\ queried' = IF r.looked THEN queried \cup {pair[1].lemma} ELSE queried
            /\ ret' = Some([sig |-> sig, form |-> r.form, looked |-> r.looked,
                          repeat |-> sig \in DOMAIN first])
            /\ first' = IF sig \in DOMAIN first THEN first ELSE Put(first, sig, r.form)
    /\ UNCHANGED <<pair, term, err, tplVars, collVars, readVars, runVars>>

TermNext == Construct \/ Inflect

vars == <<termVars, tplVars, collVars, readVars, runVars>>

SpecTerm == Init /\ [][TermNext]_vars

----------------------------------------------------------------------------
(* Inputs of the Template operations *)

Er == <<"e","r">>
Sun == <<"s","u","n">>
A == <<"a">>

\* a word as written in lower case, capitalized and in capitals
Casings(w) == {w, capitalize(w), upper(w)}

\* the variants of a noun terminal: a gender, a case, a number, maybe the article
NounVariants ==
    { {g, c, n} \cup d : g \in GENDER_VARIANTS, c \in InputCases,
                         n \in NUMBER_VARIANTS, d \in {{}, {"gr"}} }

\* English sentences holding word once, beside a word, a brace group or the
\* characters of the marker
EnSentences(word) ==
    { <<o, word>> : o \in {A, <<"{","x","}">>, PLACEHOLDER} }
        \cup { <<word, o>> : o \in {A, <<"{","x","}">>, PLACEHOLDER} }

TagLine(en_parts, is_parts) == << <<A, Tag(en_parts)>>, <<Tag(is_parts), Er>> >>

\* lines of a template file written by hand: <<en_template, is_template>>
RawLines ==
    { TagLine(<<"sg">>, <<"kk","_","nf","_","et">>),
      TagLine(<<"pl","_","cap">>, <<"kk","_","nf","_","ft","_","cap">>),
      TagLine(<<"sg">>, <<"kk","_","þgf","_","et","_","gr","_","caps">>),
      TagLine(<<"sg","_","cap">>, <<"kk","_","nf","_","et","_","caps","_","cap">>),
      TagLine(<<"pl","_","caps">>, <<"hk","_","nf","_","ft">>),
      TagLine(<<"sg","_","caps","_","cap">>, <<"hk","_","þgf","_","et","_","cap">>),
      TagLine(<<"sg">>, <<"kvk","_","nf","_","et">>),
      \* no tag on either side
      << <<A, Sun>>, <<Sol, Er>> >>,
      \* two tags on each side
      << <<Tag(<<"sg">>), Tag(<<"sg">>)>>,
         <<Tag(<<"kk","_","nf","_","et">>), Tag(<<"kk","_","nf","_","et">>)>> >>,
      \* a tag numbered 1
      << <<A, Tag(<<"sg">>)>>, << <<"{","1",":","kk","_","nf","_","et","}">>, Er>> >> }

\* template files: up to MaxFileLines lines, blank lines among them
TemplateFiles ==
    UNION { [1..n -> RawLines \cup {<< >>}] : n \in 0..MaxFileLines }

----------------------------------------------------------------------------
(* Operations on Template and TemplateCollection *)

\* t = Template.create(sent, terminal, en_sent, target_word, target_word_regex)
\* as run calls it: the pattern matches en_sent once, target_word is the match
Create ==
    /\ tpl = None /\ loaded = None /\ ~filled
    /\ \E txt \in Casings(Sol), index \in 1..2, v \in NounVariants,
          en_word \in Casings(Sun) :
         \E en_sent \in EnSentences(en_word) :
            LET tokens == IF index = 1 THEN <<txt, Er>> ELSE <<Er, txt>>
                terminal == [index |-> index, category |-> "no", text |-> txt,
                             lemma |-> Sol, variants |-> v]
            IN  /\ tpl' = create(tokens, terminal, en_sent, en_word, Sun)
                /\ slots' = Some([is |-> index, en |-> FirstMatch(Sun, en_sent)])
    /\ UNCHANGED <<wire, loaded, termVars, collVars, readVars, runVars>>

\* t.write(outfile)
Write ==
    /\ tpl # None /\ wire = None
    /\ wire' = Some(write(tpl[1]))
    /\ UNCHANGED <<tpl, slots, loaded, termVars, collVars, readVars, runVars>>

\* the lines a reader finds: the line written, else a line written by hand
LinesToLoad == IF wire # None THEN {wire[1]} ELSE IF tpl = None THEN RawLines ELSE {}

\* Template.load(is_template, en_template)
Load ==
    /\ loaded = None /\ ~filled /\ err = ""
    /\ \E line \in LinesToLoad :
        /\ loaded' = load(line[2], line[1])
        /\ err' = IF load(line[2], line[1]) = None THEN "AssertionError" ELSE ""
    /\ UNCHANGED <<tpl, slots, wire, pair, term, cache, lookups, queried, ret, first, calls,
                   collVars, readVars, runVars>>

\* the files a reader finds: the file written, else a file written by hand
FilesToRead == IF wire # None THEN {<<wire[1]>>} ELSE IF tpl = None THEN TemplateFiles ELSE {}

\* tc = TemplateCollection(); tc.read(infile)
Read ==
    /\ ~filled /\ loaded = None /\ err = "" /\ pair = None
    /\ \E file \in FilesToRead :
        /\ templates' = read(EmptyCollection, file, 1).templates
        /\ err' = read(EmptyCollection, file, 1).err
        /\ infile' = Some(file)
    /\ filled' = TRUE
    /\ UNCHANGED <<gen, tplVars, pair, term, cache, lookups, queried, ret, first, calls,
                   readVars, runVars>>

\* tc.generate(tp, count), consumed to its end by generate_pairs
Generate ==
    /\ filled /\ pair # None /\ gen = None /\ err = "" /\ calls = 0
    /\ \E count \in 0..MaxCount :
        LET bucket == templates[pair[1].cat]
        IN  IF bucket = << >> \/ sample(Len(bucket), count) = {}
            THEN /\ gen' = Some([count |-> count, drawn |-> << >>, outputs |-> << >>,
                                 raised |-> "ValueError"])
                 /\ err' = "ValueError"
                 /\ UNCHANGED <<cache, lookups, queried>>
            ELSE \E drawn \in sample(Len(bucket), count) :
                    LET r == yield(bucket, pair[1], cache, drawn, 1, << >>, 0)
                    IN  /\ gen' = Some([count |-> count, drawn |-> drawn,
                                        outputs |-> r.outputs, raised |-> r.raised])
                        /\ err' = r.raised
                        /\ cache' = r.cache
                        /\ lookups' = lookups + r.looks
                        /\ queried' = IF r.looks > 0 THEN queried \cup {pair[1].lemma}
                                      ELSE queried
    /\ UNCHANGED <<templates, filled, infile, tplVars, pair, term, ret, first, calls, readVars,
                   runVars>>

TemplateNext == Create \/ Write \/ Load \/ Read

SpecTemplate == Init /\ [][TemplateNext]_vars

GenerateNext == Read \/ Construct \/ Generate

SpecGenerate == Init /\ [][GenerateNext]_vars

----------------------------------------------------------------------------
(* Inputs of the readers and of run *)

\* lines of a glossary or terms file
ReaderLines ==
    { Sol \o <<"/", "kvk", ",">> \o Sun,                            \* sol/kvk,sun
      Dvergur \o <<"/", "kk", ",", " ">> \o Star \o <<",", " ">> \o Dna,  \* dverg/kk, star, DNA
      <<"#", " ">> \o Sun,                                          \* a comment
      <<" ">>,                                                      \* a blank line
      Sol \o <<"/", "kvk">>,                                        \* no translation
      Sol \o <<",">> \o Sun,                                        \* no /category
      Vef \o <<"/", "kk", ",">> \o Sun }                            \* not in the lexicon

ReaderFiles == UNION { [1..n -> ReaderLines] : n \in 0..MaxReaderLines }

\* the glossaries of the runs: one candidate, and two candidates in both orders
RunGlossaries ==
    { << Sol \o <<"/", "kvk", ",">> \o Sun >>,
      << Sol \o <<"/", "kvk", ",">> \o Sun \o <<",">> \o Star >>,
      << Sol \o <<"/", "kvk", ",">> \o Star \o <<",">> \o Sun >> }

EnWords == {Sun, capitalize(Sun), Sun \o <<"s">>, Star}

\* English sentences of one or two words, and of three words of the glossary
EnSents == UNION { [1..n -> EnWords] : n \in 1..2 } \cup [1..3 -> {Sun, Star}]

Noun(index, text, lemma, number) ==
    [index |-> index, category |-> "no", text |-> text, lemma |-> lemma,
     variants |-> {"kvk", "nf", number}]

Verb(index) ==
    [index |-> index, category |-> "so", text |-> Er, lemma |-> Er, variants |-> {"p3", "et"}]

\* what g.parse_single returns: None, a sentence without terminals, or a
\* sentence of two tokens with its terminals
Parses ==
    { None, Some([tokens |-> <<Sol, Er>>, terminals |-> None]) }
    \cup { Some([tokens |-> <<Sol, Er>>,
                 terminals |-> Some(<<Noun(1, Sol, Sol, n), Verb(2)>>)]) : n \in NUMBER_VARIANTS }
    \cup { Some([tokens |-> <<Sol, Sol>>,
                 terminals |-> Some(<<Noun(1, Sol, Sol, "et"), Noun(2, Sol, Sol, n)>>)]) :
                n \in NUMBER_VARIANTS }
    \cup { Some([tokens |-> <<Sol, Vef>>,
                 terminals |-> Some(<<Noun(1, Sol, Sol, "et"), Noun(2, Vef, Vef, "et")>>)]),
           \* a noun terminal of two tokens
           Some([tokens |-> <<Sol, Er>>,
                 terminals |-> Some(<<Noun(1, Sol \o <<" ">> \o Er, Sol, "et")>>)]) }

\* non-blank corpus lines: the English sentence and the parse of the Icelandic one
CorpusLines == { [en_sent |-> e, sent |-> p] : e \in EnSents, p \in Parses }

\* corpus lines of a long corpus: one that parses and one that does not
BudgetLines ==
    { [en_sent |-> <<A>>, sent |-> None],
      [en_sent |-> <<A>>, sent |-> Some([tokens |-> <<Er>>, terminals |-> Some(<<Verb(1)>>)])] }

----------------------------------------------------------------------------
(* Operations of the readers and of TemplateCollector *)

\* TemplateCollector(infile, outfile, glossary): reads a glossary file
Collector(files) ==
    /\ glossary = None /\ termsread = None /\ err = ""
    /\ \E file \in files :
        LET r == read_glossary(EmptyDict, << >>, file, 1)
        IN  /\ gfile' = Some(file)
            /\ glossary' = IF r.err = "" THEN Some(r.d) ELSE None
            /\ diags' = r.diags
            /\ err' = r.err
    /\ UNCHANGED <<termsread, runVars, tplVars, collVars,
                   pair, term, cache, lookups, queried, ret, first, calls>>

NewCollector == Collector(ReaderFiles)

RunCollector == Collector(RunGlossaries)

BudgetCollector == Collector({<< >>})

\* terms = read_terms(glossary)
ReadTerms ==
    /\ glossary = None /\ gfile = None /\ termsread = None /\ err = ""
    /\ \E file \in ReaderFiles :
        LET r == read_terms(EmptyDict, << >>, file, 1)
        IN  /\ termsread' = Some([file |-> file, d |-> r.d])
            /\ diags' = r.diags
            /\ err' = r.err
    /\ UNCHANGED <<glossary, gfile, runVars, tplVars, collVars,
                   pair, term, cache, lookups, queried, ret, first, calls>>

\* one turn of the loop of line 444 on a non-blank line
RunLine(lines, max) ==
    /\ glossary # None /\ ~done /\ consumed < max
    /\ \E ln \in lines :
        /\ lastline' = Some(ln)
        /\ consumed' = consumed + 1
        /\ parses' = parses + 1
        /\ IF Unparsed(ln.sent)
           THEN /\ written' = << >>
                /\ UNCHANGED <<cnt, done>>
           ELSE /\ written' = collect(glossary[1], ln.sent[1], ln.en_sent, 1, << >>)
                /\ cnt' = cnt + 1
                /\ done' = BudgetReached(cnt + 1)
    /\ UNCHANGED <<readVars, termVars, tplVars, collVars>>

RunStep == RunLine(CorpusLines, MaxCorpusLines)

BudgetStep == RunLine(BudgetLines, MaxBudgetLines)

\* one turn of the loop of line 444 on a blank line
RunBlank ==
    /\ glossary # None /\ ~done /\ lastline # None
    /\ lastline' = None
    /\ written' = << >>
    /\ UNCHANGED <<consumed, parses, cnt, done, readVars, termVars, tplVars, collVars>>

\* the end of infile
RunEnd ==
    /\ glossary # None /\ ~done
    /\ done' = TRUE
    /\ UNCHANGED <<consumed, parses, cnt, lastline, written, readVars, termVars, tplVars,
                   collVars>>

ReadNext == NewCollector \/ ReadTerms

SpecRead == Init /\ [][ReadNext]_vars

RunNext == RunCollector \/ RunStep \/ RunBlank \/ RunEnd

SpecRun == Init /\ [][RunNext]_vars

BudgetNext == BudgetCollector \/ BudgetStep \/ RunBlank \/ RunEnd

SpecBudget == Init /\ [][BudgetNext]_vars

----------------------------------------------------------------------------
(* Claims about TermPair *)

\* C4, as stated: once inflect(sig) has been called, every later call of
\* inflect(sig) returns the identical result and performs no lexicon query,
\* also for a signature the term cannot realize.
C4_AnyRepeatIsCached ==
    (ret # None /\ ret[1].repeat) =>
        /\ ret[1].form = first[ret[1].sig]
        /\ ~ret[1].looked

\* C4, amended: a later call of inflect(sig) returns the identical result; it
\* performs no lexicon query when the first call returned a form, and queries
\* the lexicon again when the first call returned nothing.
C4_RepeatIsCachedWhenRealizable ==
    (ret # None /\ ret[1].repeat) =>
        /\ ret[1].form = first[ret[1].sig]
        /\ ret[1].looked <=> (first[ret[1].sig] = None)

C4_Witness ==
    /\ ret # None
    /\ ret[1].repeat
    /\ ret[1].form # None
    /\ lookups >= 2

\* The parts of a canonical form around its last hyphen, found by position
HeadStart(stofn) ==
    CHOOSE k \in DOMAIN stofn :
        stofn[k] = "-" /\ \A j \in DOMAIN stofn : j > k => stofn[j] # "-"

\* the surface forms the lexicon holds for a lemma and a category
LexiconForms(lemma, cat) ==
    UNION { { lookup_forms(lemma, cat, case)[i].ordmynd :
                i \in DOMAIN lookup_forms(lemma, cat, case) } : case \in CASE_VARIANTS }

\* every Icelandic form in the cache or returned is fixed \o a lexicon form of head
FormsAre(fixed, head, cat) ==
    /\ queried \subseteq {head}
    /\ \A v \in DOMAIN cache :
        \E f \in LexiconForms(head, cat) : cache[v][1] = fixed \o f
    /\ (ret # None /\ ret[1].form # None) =>
        \E f \in LexiconForms(head, cat) : ret[1].form[1][1] = fixed \o f

\* C7: a TermPair whose lexicon entry is hyphenated while the caller's lemma
\* is not queries the lexicon only with the part after the last hyphen, and
\* every form cached or returned is the part before the last hyphen followed
\* by a form of that head; otherwise the prefix is empty and the forms are
\* the lexicon's forms of the caller's lemma.
C7_CompoundForms ==
    pair # None =>
        LET t == term[1]
            entry == CHOOSE e \in ToSet(lookup_lemma(t.lemma)) : e.ordfl = t.cat
        IN  IF HasChar(entry.stofn, "-") /\ ~HasChar(t.lemma, "-")
            THEN LET k == HeadStart(entry.stofn)
                 IN  FormsAre(SubSeq(entry.stofn, 1, k - 1),
                              SubSeq(entry.stofn, k + 1, Len(entry.stofn)), t.cat)
            ELSE pair[1].prefix = << >> /\ FormsAre(<< >>, t.lemma, t.cat)

C7_Witness ==
    /\ pair # None
    /\ HasChar(pair[1].prefix, "-")
    /\ ret # None
    /\ ret[1].form # None
    /\ Cardinality(DOMAIN cache) >= 2

----------------------------------------------------------------------------
(* Claims about Template and TemplateCollection *)

\* the text read back is the text created, with the marker where create put its tag
SameText(created, slot, text) ==
    /\ Len(text) = Len(created)
    /\ \A i \in DOMAIN created :
        IF i = slot THEN text[i] = PLACEHOLDER ELSE text[i] = created[i]

\* C2: a Template built by create, written by write and read back by load has
\* the same signature, the same four capitalization flags and the same
\* placeholder-bearing source and target text.
C2_RoundTrip ==
    (tpl # None /\ wire # None /\ (loaded # None \/ err # "")) =>
        /\ loaded # None
        /\ loaded[1].variants = tpl[1].variants
        /\ loaded[1].gender = tpl[1].gender
        /\ loaded[1].case = tpl[1].case
        /\ loaded[1].number = tpl[1].number
        /\ loaded[1].is_all_caps = tpl[1].is_all_caps
        /\ loaded[1].is_first_cap = tpl[1].is_first_cap
        /\ loaded[1].en_all_caps = tpl[1].en_all_caps
        /\ loaded[1].en_first_cap = tpl[1].en_first_cap
        /\ SameText(tpl[1].is_template, slots[1].is, loaded[1].is_template)
        /\ SameText(tpl[1].en_template, slots[1].en, loaded[1].en_template)

\* the number of placeholder markers of a text
Markers(text) == Cardinality({i \in DOMAIN text : text[i] = PLACEHOLDER})

OnePerSide(t) == Markers(t.is_template) = 1 /\ Markers(t.en_template) = 1

\* C3: every Template returned by load, and every Template stored in a
\* TemplateCollection, has exactly one placeholder marker on each side.
C3_SinglePlaceholder ==
    /\ loaded # None => OnePerSide(loaded[1])
    /\ \A g \in DOMAIN templates :
        \A i \in DOMAIN templates[g] : OnePerSide(templates[g][i])

\* C5: generate(term, k) yields no two outputs from the same position of the
\* bucket of term.gender when k is at most the size of the bucket, and raises,
\* yielding nothing, when k exceeds it.
C5_SampleWithoutReplacement ==
    gen # None =>
        LET size == Len(templates[pair[1].cat])
            outputs == gen[1].outputs
        IN  /\ gen[1].count <= size =>
                \A i, j \in DOMAIN outputs : i # j => outputs[i].pos # outputs[j].pos
            /\ gen[1].count > size => gen[1].raised = "ValueError" /\ outputs = << >>

C5_Witness ==
    /\ gen # None
    /\ gen[1].count = 2
    /\ Len(gen[1].outputs) = 2
    /\ gen[1].raised = ""

\* upper-casing the first letter only
FirstLetterUp(form) == [i \in DOMAIN form |-> IF i = 1 THEN UpperChar(form[i]) ELSE form[i]]

\* the form a side should get from its own flags
Expected(all_caps, first_cap, form) ==
    IF all_caps THEN upper(form)
    ELSE IF first_cap THEN FirstLetterUp(form)
    ELSE form

\* C6: each side of an output holds the inflected form cased by that side's
\* flags alone: fully upper-cased when all-caps is set (also with first-cap),
\* first letter capitalized when only first-cap is set, unchanged with neither.
C6_Capitalization ==
    gen # None =>
        \A i \in DOMAIN gen[1].outputs :
            LET o == gen[1].outputs[i]
                t == templates[pair[1].cat][o.pos]
            IN  /\ o.sub[1] = replace(t.is_template,
                                      Expected(t.is_all_caps, t.is_first_cap, o.terms[1]))
                /\ o.sub[2] = replace(t.en_template,
                                      Expected(t.en_all_caps, t.en_first_cap, o.terms[2]))

----------------------------------------------------------------------------
(* Claims about the readers and TemplateCollector.run *)

\* the terminals of the corpus line read last
LastTerminals == lastline[1].sent[1].terminals[1]

\* whether run has just processed a line whose Icelandic sentence parsed
Processed == glossary # None /\ lastline # None /\ ~Unparsed(lastline[1].sent)

\* a single-token noun terminal whose lemma is in the glossary
Qualifying(t) ==
    t.category = "no" /\ ~HasChar(t.text, " ") /\ Get(glossary[1], t.lemma) # None

\* the matches of the k-th candidate of the terminal's lemma in the English sentence
CandidateMatches(t, k) ==
    findall(IF "ft" \in t.variants THEN glossary[1][t.lemma][k][2]
            ELSE glossary[1][t.lemma][k][1], lastline[1].en_sent)

MatchingCandidates(t) ==
    {k \in DOMAIN glossary[1][t.lemma] : CandidateMatches(t, k) # << >>}

UniqueMatch(t) ==
    /\ Cardinality(MatchingCandidates(t)) = 1
    /\ \A k \in MatchingCandidates(t) : Len(CandidateMatches(t, k)) = 1

WrittenFor(t) == {k \in DOMAIN written : written[k].index = t.index}

\* C1: for every single-token noun terminal whose lemma is in the glossary,
\* one Template is written if exactly one candidate pattern matches the
\* English sentence and matches it once, and none is written otherwise,
\* whatever the order of the candidates.
C1_WrittenIffUniqueMatch ==
    Processed =>
        \A j \in DOMAIN LastTerminals :
            Qualifying(LastTerminals[j]) =>
                Cardinality(WrittenFor(LastTerminals[j]))
                    = IF UniqueMatch(LastTerminals[j]) THEN 1 ELSE 0

\* a noun with two candidates of which one matches once has its Template written
C1_Witness ==
    /\ Processed
    /\ \E j \in DOMAIN LastTerminals :
        /\ Qualifying(LastTerminals[j])
        /\ Len(glossary[1][LastTerminals[j].lemma]) = 2
        /\ UniqueMatch(LastTerminals[j])
        /\ WrittenFor(LastTerminals[j]) # {}

\* a noun of which two candidates match has nothing written
C1_WitnessAmbiguous ==
    /\ Processed
    /\ \E j \in DOMAIN LastTerminals :
        /\ Qualifying(LastTerminals[j])
        /\ Cardinality(MatchingCandidates(LastTerminals[j])) = 2
        /\ written = << >>

\* a line of a reader's file that lacks the translation field or the
\* "/category" part of its first field
MissingField(ln) ==
    /\ strip(ln) # << >>
    /\ strip(ln)[1] # "#"
    /\ \/ Len(split(strip(ln), ",")) < 2
       \/ Len(split(strip(split(strip(ln), ",")[1]), "/")) # 2

\* a line of a reader's file with both fields
WellFormed(ln) ==
    /\ strip(ln) # << >>
    /\ strip(ln)[1] # "#"
    /\ ~MissingField(ln)

LemmaOf(ln) == split(strip(split(strip(ln), ",")[1]), "/")[1]

CategoryOf(ln) == split(strip(split(strip(ln), ",")[1]), "/")[2]

\* C8: when a glossary line or a terms line is missing a required field, the
\* line is skipped with a diagnostic, the reader does not raise, and every
\* well-formed line before and after it is entered in the dictionary.
C8_MalformedLineRecoverable ==
    /\ (gfile # None /\ \E i \in DOMAIN gfile[1] : MissingField(gfile[1][i])) =>
        /\ err = ""
        /\ diags # << >>
        /\ glossary # None
        /\ \A i \in DOMAIN gfile[1] :
            (WellFormed(gfile[1][i])
                /\ ~NotInLexicon(LemmaOf(gfile[1][i]), CategoryOf(gfile[1][i])))
            => Get(glossary[1], LemmaOf(gfile[1][i])) # None
    /\ (termsread # None
            /\ \E i \in DOMAIN termsread[1].file : MissingField(termsread[1].file[i])) =>
        /\ err = ""
        /\ diags # << >>
        /\ \A i \in DOMAIN termsread[1].file :
            WellFormed(termsread[1].file[i])
            => Get(termsread[1].d, LemmaOf(termsread[1].file[i]) \o <<"/">>
                                      \o CategoryOf(termsread[1].file[i])) # None

\* C9 as stated: a parsed line whose English sentence holds the target word
\* of one of its nouns exactly once, with one matching candidate, has exactly
\* one Template written; one whose English sentence holds the target word
\* twice has none.
C9_OnePerLine ==
    Processed =>
        /\ (\E j \in DOMAIN LastTerminals :
                Qualifying(LastTerminals[j]) /\ UniqueMatch(LastTerminals[j]))
            => Len(written) = 1
        /\ (\E j \in DOMAIN LastTerminals :
                /\ Qualifying(LastTerminals[j])
                /\ \A t \in DOMAIN LastTerminals : LastTerminals[t].lemma = LastTerminals[j].lemma
                /\ \E k \in MatchingCandidates(LastTerminals[j]) :
                        Len(CandidateMatches(LastTerminals[j], k)) = 2)
            => Len(written) = 0

\* C9: a parsed line has one Template written for each of its single-token
\* glossary nouns whose target word is the only matching candidate and occurs
\* exactly once in the English sentence, and none for a noun whose target
\* word occurs twice.
C9_OnePerQualifyingNoun ==
    Processed =>
        /\ Len(written) = Cardinality({j \in DOMAIN LastTerminals :
                                        /\ Qualifying(LastTerminals[j])
                                        /\ UniqueMatch(LastTerminals[j])})
        /\ \A j \in DOMAIN LastTerminals :
            (/\ Qualifying(LastTerminals[j])
             /\ \E k \in MatchingCandidates(LastTerminals[j]) :
                    Len(CandidateMatches(LastTerminals[j], k)) = 2)
            => WrittenFor(LastTerminals[j]) = {}

\* a line with the same noun twice, both written
C9_Witness ==
    /\ Processed
    /\ Len(LastTerminals) = 2
    /\ \A j \in DOMAIN LastTerminals :
        Qualifying(LastTerminals[j]) /\ UniqueMatch(LastTerminals[j])
    /\ Len(written) = 2

\* C10: in one run the number of non-blank lines consumed, and so the number
\* of calls of parse_single, never exceeds MAX_LINES.
C10_LineBudget == consumed <= MAX_LINES /\ parses <= MAX_LINES

----------------------------------------------------------------------------
(* Claims about skipped templates and the forms inserted *)

\* the lexicon forms of the working lemma of p that realize sig: in the case
\* of sig, not secondary, with the variant set sig
RealizingForms(p, sig) ==
    UNION { { m \in ToSet(lookup_forms(p.lemma, p.cat, case)) :
                /\ ~InBeyging("2", m.beyging) /\ ~InBeyging("3", m.beyging)
                /\ {case, IF InBeyging("FT", m.beyging) THEN "ft" ELSE "et"}
                        \cup (IF InBeyging("gr", m.beyging) THEN {"gr"} ELSE {}) = sig } :
            case \in sig \cap CASE_VARIANTS }

\* the bucket generate drew from
Bucket == templates[pair[1].cat]

\* C11: generate(term, count) draws count templates once; a drawn template
\* whose inflection is unrealizable is skipped and none is drawn in its place,
\* so the outputs are those of the drawn templates with a realizable
\* inflection, in the order drawn, and at most count; an unrealizable
\* inflection raises no error.
C11_SkippedNotRedrawn ==
    gen # None =>
        /\ gen[1].raised \in {"", "ValueError"}
        /\ gen[1].raised = "ValueError" => (Bucket = << >> \/ gen[1].count > Len(Bucket))
        /\ gen[1].raised = "" =>
            /\ Len(gen[1].drawn) = gen[1].count
            /\ Len(gen[1].outputs) <= gen[1].count
            /\ [i \in DOMAIN gen[1].outputs |-> gen[1].outputs[i].pos]
                = SelectSeq(gen[1].drawn,
                            LAMBDA pos : RealizingForms(pair[1], Bucket[pos].variants) # {})

\* two templates drawn, the first skipped and the second substituted
C11_Witness ==
    /\ gen # None
    /\ gen[1].raised = ""
    /\ gen[1].count = 2
    /\ Len(gen[1].outputs) = 1
    /\ gen[1].outputs[1].pos = gen[1].drawn[2]

\* C12: inflect(sig), for a signature holding one case, returns a pair if and
\* only if the lexicon has a form of the working lemma in that case, not
\* flagged "2" or "3", whose variant set is sig; the source form returned is
\* prefix + such a form and the English form is the plural when sig holds
\* "ft" and the singular otherwise; with no such form it returns nothing.
C12_ExactSignature ==
    (pair # None /\ ret # None /\ Cardinality(ret[1].sig \cap CASE_VARIANTS) = 1) =>
        /\ ret[1].form # None <=> RealizingForms(pair[1], ret[1].sig) # {}
        /\ ret[1].form # None =>
            /\ \E m \in RealizingForms(pair[1], ret[1].sig) :
                    ret[1].form[1][1] = pair[1].prefix \o m.ordmynd
            /\ ret[1].form[1][2] = IF "ft" \in ret[1].sig THEN pair[1].en_plural
                                   ELSE pair[1].en_singular

\* a compound's dative singular, which has secondary variants in the lexicon,
\* is returned
C12_Witness ==
    /\ pair # None
    /\ pair[1].prefix # << >>
    /\ ret # None
    /\ ret[1].sig = {"þgf", "et"}
    /\ ret[1].form # None

\* a plural asked of a term without plural forms returns nothing
C12_WitnessUnrealizable ==
    /\ pair # None
    /\ ret # None
    /\ "ft" \in ret[1].sig
    /\ ret[1].form = None

\* a token with sg and pl exchanged in its tag
FlipNumber(token) ==
    IF IsTag(token)
    THEN [i \in DOMAIN token |->
            IF i >= 4 /\ token[i] = "sg" THEN "pl"
            ELSE IF i >= 4 /\ token[i] = "pl" THEN "sg"
            ELSE token[i]]
    ELSE token

\* a template file with sg and pl exchanged in the English tags of its lines
FlipFile(file) ==
    [i \in DOMAIN file |->
        IF file[i] = << >> THEN << >>
        ELSE << [j \in DOMAIN file[i][1] |-> FlipNumber(file[i][1][j])], file[i][2] >>]

\* C13: the English form inserted is the plural exactly when the source tag
\* of the template holds "ft", and a template file that differs only in the
\* sg/pl of its English tags gives the same outputs for the same term and
\* the same draw.
C13_EnglishNumberFromSourceTag ==
    (gen # None /\ gen[1].raised = "") =>
        /\ \A i \in DOMAIN gen[1].outputs :
            gen[1].outputs[i].terms[2]
                = IF "ft" \in Bucket[gen[1].outputs[i].pos].variants
                  THEN pair[1].en_plural ELSE pair[1].en_singular
        /\ read(EmptyCollection, FlipFile(infile[1]), 1).err = ""
        /\ yield(read(EmptyCollection, FlipFile(infile[1]), 1).templates[pair[1].cat],
                 pair[1], EmptyDict, gen[1].drawn, 1, << >>, 0).outputs = gen[1].outputs

\* an output with the plural English form, from a file whose counterpart
\* has the English tag sg against the source tag ft
C13_Witness ==
    /\ gen # None
    /\ gen[1].raised = ""
    /\ FlipFile(infile[1]) # infile[1]
    /\ \E i \in DOMAIN gen[1].outputs :
        /\ "ft" \in Bucket[gen[1].outputs[i].pos].variants
        /\ gen[1].outputs[i].terms[2] = pair[1].en_plural

=============================================================================
